---- MODULE Spec2Model ----
(***************************************************************************)
(* BreezyBoard: the kanban board's task ordering and column-move protocol. *)
(* Client: KanbanBoard (handleDragStart, handleDragEnd, handleTaskSave,    *)
(* handleTaskMove) with its React state; server: the task routes with     *)
(* authenticate, authorizeBoard and errorHandler around task.service.js    *)
(* (moveTask, updateOrders, getTasksByBoard, updateTask, createTask,       *)
(* deleteTask).                                                            *)
(* Every HTTP call is a record in `calls`: issued by the client, served by *)
(* the server at some later step, and answered to the client at a still    *)
(* later step, so that handlers interleave as they do on the event loop.   *)
(***************************************************************************)
EXTENDS Integers, Sequences, FiniteSets, TLC

\* ---------------------------------------------------------------- bounds
NumTasks == 2
NumColumns == 2
MaxInitOrder == 1
MaxOps == 2
MaxCalls == 2
MaxCreated == 1

\* ------------------------------------------------------------ identifiers
\* ids are opaque ObjectId strings in the program; numbers stand for them
NoId == 0
UnknownId == 999
DoneLiteral == -1
TaskIds == 1..NumTasks
ColumnIds == {100 + i : i \in 1..NumColumns}

\* the board template's columns as loaded by fetchBoardData
columns == [i \in 1..NumColumns |-> [id |-> 100 + i, order |-> i - 1]]

Checklists == {<<>>, <<FALSE>>, <<TRUE>>}

\* the board on display and another board of the same server
BoardId == 301
OtherBoardId == 302
UnknownBoardId == 399

\* users: the board's creator, a listed member, and somebody who is neither
\* (the creator of the other board)
Creator == 201
Member == 202
Outsider == 203
Users == {Creator, Member, Outsider}

\* Board documents: createdBy and members
Boards ==
    [b \in {BoardId, OtherBoardId} |->
        IF b = BoardId THEN [createdBy |-> Creator, members |-> {Member}]
        ELSE [createdBy |-> Outsider, members |-> {}]]

\* a task of the other board, and a string that is no ObjectId
ForeignTaskId == 50
MalformedId == -2

VARIABLES
    tasks,        \* useState<Task[]>: the client's task list
    activeTask,   \* useState<Task | null>: <<>> is null, <<t>> the snapshot
    dragging,     \* id of the card under the pointer (event.active.id), or NoId
    selectedTask, \* useState<Task | null> of the drawer: <<>> or <<t>>
    drawerOpen,   \* useState(false)
    isSubmitting, \* TaskDrawer's submit guard
    db,           \* server: the Task collection, id -> document
    calls,        \* HTTP calls in flight, in the order they were issued
    unhandled,    \* handlers whose promise was rejected (uncaught error)
    ops,          \* number of user gestures so far
    boards        \* server: the Board collection, id -> document

vars == <<tasks, activeTask, dragging, selectedTask, drawerOpen, isSubmitting,
          db, calls, unhandled, ops, boards>>

\* ------------------------------------------------------- array helpers
\* Array.prototype.filter(task => task.status === s)
FilterStatus(list, s) == SelectSeq(list, LAMBDA t : t.status = s)

\* Array.prototype.filter(task => task.status !== s)
FilterNotStatus(list, s) == SelectSeq(list, LAMBDA t : t.status # s)

\* Array.prototype.find(task => task._id === id): <<>> when absent
FindTask(list, id) ==
    LET hits == SelectSeq(list, LAMBDA t : t.id = id)
    IN  IF hits = <<>> THEN <<>> ELSE <<hits[1]>>

\* Array.prototype.findIndex, 0-based, -1 when absent
FindIndex(list, id) ==
    IF \E i \in 1..Len(list) : list[i].id = id
    THEN (CHOOSE i \in 1..Len(list) :
              list[i].id = id /\ \A j \in 1..(i - 1) : list[j].id # id) - 1
    ELSE -1

\* insertion of t into a list sorted by order, after every element that
\* does not compare greater (the sort is stable)
RECURSIVE InsertSorted(_, _)
InsertSorted(sorted, t) ==
    IF sorted = <<>> THEN <<t>>
    ELSE IF sorted[Len(sorted)].order <= t.order THEN Append(sorted, t)
    ELSE Append(InsertSorted(SubSeq(sorted, 1, Len(sorted) - 1), t),
                sorted[Len(sorted)])

\* Array.prototype.sort((a, b) => a.order - b.order)
RECURSIVE SortByOrder(_)
SortByOrder(list) ==
    IF list = <<>> THEN <<>>
    ELSE InsertSorted(SortByOrder(SubSeq(list, 1, Len(list) - 1)), list[Len(list)])

\* Math.max(...list.map(t => t.order)) of a non-empty list
MaxOrder(list) ==
    CHOOSE m \in {list[i].order : i \in 1..Len(list)} :
        \A i \in 1..Len(list) : list[i].order <= m

\* Array.prototype.splice(start, 1) as used by arrayMove: the index removed
\* (0-based), negative start counting from the end
SpliceIndex(len, start) ==
    IF start < 0 THEN (IF len + start < 0 THEN 0 ELSE len + start)
    ELSE IF start > len THEN len ELSE start

RemoveAt(list, i0) ==
    [k \in 1..(Len(list) - 1) |-> IF k <= i0 THEN list[k] ELSE list[k + 1]]

InsertAt(list, i0, x) ==
    [k \in 1..(Len(list) + 1) |->
        IF k <= i0 THEN list[k] ELSE IF k = i0 + 1 THEN x ELSE list[k - 1]]

\* a plausible slip: the two positions are exchanged instead
arraySwap(array, from, to) ==
    LET f == SpliceIndex(Len(array), from) + 1
        t == SpliceIndex(Len(array) - 1, to) + 1
    IN  [k \in 1..Len(array) |->
            IF k = f THEN array[t] ELSE IF k = t THEN array[f] ELSE array[k]]

\* @dnd-kit/sortable arrayMove(array, from, to)
arrayMove(array, from, to) ==
    LET f == SpliceIndex(Len(array), from)
        removed == array[f + 1]
        rest == RemoveAt(array, f)
        t == SpliceIndex(Len(rest), IF to < 0 THEN Len(rest) + to ELSE to)
    IN  InsertAt(rest, t, removed)

\* reorderedTasks.map((task, index) => ({...task, order: index}))
Renumber(list) == [k \in 1..Len(list) |-> [list[k] EXCEPT !.order = k - 1]]

\* prev.map(task => task._id === id ? {...task, status, order} : task)
MapStatusOrder(list, id, s, o) ==
    [k \in 1..Len(list) |->
        IF list[k].id = id THEN [list[k] EXCEPT !.status = s, !.order = o]
        ELSE list[k]]

\* prev.map(task => task._id === id ? {...task, status} : task)
MapStatus(list, id, s) ==
    [k \in 1..Len(list) |->
        IF list[k].id = id THEN [list[k] EXCEPT !.status = s] ELSE list[k]]

\* prev.map(t => t._id === id ? result : t)
MapReplace(list, id, result) ==
    [k \in 1..Len(list) |-> IF list[k].id = id THEN result ELSE list[k]]

\* ------------------------------------------------------------- server
\* Task documents are created in id order, so createdAt grows with the id
RECURSIVE DescIds(_)
DescIds(S) ==
    IF S = {} THEN <<>>
    ELSE LET m == CHOOSE x \in S : \A y \in S : y <= x
         IN  <<m>> \o DescIds(S \ {m})

DocOf(d, id) ==
    [id |-> id, status |-> d[id].status, order |-> d[id].order,
     checklist |-> d[id].checklist]

\* Task.find({boardId}).sort({createdAt: -1})
getTasksByBoard(d, boardId) ==
    LET ids == DescIds({id \in DOMAIN d : d[id].boardId = boardId})
    IN  [k \in 1..Len(ids) |-> DocOf(d, ids[k])]

\* a plausible slip: the update is not filtered by the id
moveTaskEvery(d, id, s, o) ==
    [x \in DOMAIN d |-> [d[x] EXCEPT !.status = s, !.order = o]]

\* a plausible slip: a write that would lower the stored order is taken for
\* stale and dropped
moveTaskKeepNewer(d, id, s, o) ==
    IF d[id].order > o THEN d ELSE [d EXCEPT ![id].status = s, ![id].order = o]

\* Task.findByIdAndUpdate(taskId, {status, order}); the caller checks the id
moveTask(d, id, s, o) == [d EXCEPT ![id].status = s, ![id].order = o]

\* the same with order undefined: the key is not written
moveTaskStatusOnly(d, id, s) == [d EXCEPT ![id].status = s]

\* a plausible slip: the bulk write gives up at the first id that is absent
RECURSIVE updateOrdersAbort(_, _)
updateOrdersAbort(d, updates) ==
    IF updates = <<>> THEN d
    ELSE IF updates[1].id \notin DOMAIN d THEN d
    ELSE updateOrdersAbort([d EXCEPT ![updates[1].id].order = updates[1].order],
                           Tail(updates))

\* Task.bulkWrite(updateOne {_id: id} {order}): absent ids match nothing
RECURSIVE updateOrders(_, _)
updateOrders(d, updates) ==
    IF updates = <<>> THEN d
    ELSE LET u == updates[1]
             d1 == IF u.id \in DOMAIN d THEN [d EXCEPT ![u.id].order = u.order]
                   ELSE d
         IN  updateOrders(d1, Tail(updates))

\* Task.findByIdAndUpdate(id, updateData) with the drawer's payload
updateTask(d, id, s, cl) == [d EXCEPT ![id].status = s, ![id].checklist = cl]

\* Task.create(taskData): order takes the schema default; owner is NoId
\* when taskData names none
DefaultOrder == 0

createTask(d, id, boardId, s, cl, owner) ==
    [x \in DOMAIN d \cup {id} |->
        IF x = id THEN [status |-> s, order |-> DefaultOrder, checklist |-> cl,
                        boardId |-> boardId, owner |-> owner]
        ELSE d[x]]

\* Task.findByIdAndDelete(id); the caller checks the id
deleteTask(d, id) == [x \in DOMAIN d \ {id} |-> d[x]]

\* ---------------------------------------------------------------- calls
\* a request as the board's client sends it: the axios interceptor adds the
\* stored token of the signed-in user, a member of the board on display
NoCall ==
    [handler |-> "none", call |-> "none", net |-> "none", id |-> NoId,
     status |-> NoId, order |-> 0, origStatus |-> NoId, origOrder |-> 0,
     preStatus |-> NoId, preOrder |-> 0, updates |-> <<>>, resp |-> <<>>,
     auth |-> "valid", user |-> Member, boardId |-> BoardId, body |-> "ok",
     code |-> 0, success |-> FALSE, message |-> FALSE, owner |-> NoId,
     members |-> {}, createdBy |-> NoId]

RemoveCall(i) == RemoveAt(calls, i - 1)

\* ------------------------------------------------------------ initial state
\* the state after fetchBoardData: the list is the server's, sorted by order
InitDbs ==
    [TaskIds -> [status : ColumnIds, order : 0..MaxInitOrder, checklist : {<<>>},
                 boardId : {BoardId}, owner : {NoId}]]

Init ==
    /\ db \in InitDbs
    /\ tasks = SortByOrder(getTasksByBoard(db, BoardId))
    /\ activeTask = <<>>
    /\ dragging = NoId
    /\ selectedTask = <<>>
    /\ drawerOpen = FALSE
    /\ isSubmitting = FALSE
    /\ calls = <<>>
    /\ unhandled = {}
    /\ ops = 0
    /\ boards = Boards

\* ------------------------------------------------------------ drag handlers
\* the open drawer's backdrop covers the board, so no card can be grabbed
handleDragStart(id) ==
    /\ dragging = NoId
    /\ ~drawerOpen
    /\ ops < MaxOps
    /\ \E i \in 1..Len(tasks) : tasks[i].id = id
    /\ activeTask' = FindTask(tasks, id)
    /\ dragging' = id
    /\ ops' = ops + 1
    /\ UNCHANGED <<boards, tasks, selectedTask, drawerOpen, isSubmitting, db, calls, unhandled>>

\* columns.some(col => col.id === over.id)
isOverColumn(over) == \E i \in 1..Len(columns) : columns[i].id = over

\* a plausible slip: the task match is tried before the column match
targetColumnIdOfTaskFirst(cols, list, over) ==
    LET overTask == FindTask(list, over)
    IN  IF overTask # <<>> THEN <<overTask[1].status>>
        ELSE IF \E i \in 1..Len(cols) : cols[i].id = over THEN <<over>>
        ELSE <<>>

\* let targetColumnId: the column dropped on, else the column of the task
\* dropped on; <<>> when the id is neither (the handler returns)
targetColumnIdOf(cols, list, over) ==
    LET overColumn == \E i \in 1..Len(cols) : cols[i].id = over
        overTask == FindTask(list, over)
    IN  IF overColumn THEN <<over>>
        ELSE IF overTask # <<>> THEN <<overTask[1].status>>
        ELSE <<>>

\* the branch handleDragEnd takes for a drop on `over`
DragBranch(over) ==
    IF over = NoId \/ activeTask = <<>> THEN "none"
    ELSE LET overTask == FindTask(tasks, over)
             target == targetColumnIdOf(columns, tasks, over)
         IN  IF target = <<>> THEN "none"
             ELSE IF activeTask[1].status # target[1] THEN "move"
             ELSE IF overTask # <<>> /\ activeTask[1].id # overTask[1].id
                  THEN "reorder"
                  ELSE "none"

targetColumnOf(over) == targetColumnIdOf(columns, tasks, over)[1]

\* a plausible slip: the column's length instead of its maximum order + 1
newOrderForLength(targetColumnId) == Len(FilterStatus(tasks, targetColumnId))

newOrderFor(targetColumnId) ==
    LET targetColumnTasks == FilterStatus(tasks, targetColumnId)
    IN  IF Len(targetColumnTasks) > 0 THEN MaxOrder(targetColumnTasks) + 1 ELSE 0

\* the column's tasks sorted by order, and the two indices of the reorder
columnTasksOf(over) == SortByOrder(FilterStatus(tasks, targetColumnOf(over)))

oldIndexOf(over) == FindIndex(columnTasksOf(over), activeTask[1].id)

newIndexOf(over) == FindIndex(columnTasksOf(over), over)

\* reorderedTasks.map((task, index) => ({...task, order: index}))
updatedTasksOf(over) ==
    Renumber(arrayMove(columnTasksOf(over), oldIndexOf(over), newIndexOf(over)))

\* a plausible slip: the list is left alone until the call has returned
DragEndTasksLate(over) == tasks

\* a plausible slip: the cross-column move also renumbers the column left
DragEndTasksRenumbering(over) ==
    IF DragBranch(over) = "move"
    THEN LET a == activeTask[1]
             moved == MapStatusOrder(tasks, a.id, targetColumnOf(over),
                                     newOrderFor(targetColumnOf(over)))
         IN  FilterNotStatus(moved, a.status)
                 \o Renumber(SortByOrder(FilterStatus(moved, a.status)))
    ELSE tasks

\* a plausible slip: the reordered column replaces the list instead of being
\* joined to the tasks of the other columns
DragEndTasksColumnOnly(over) ==
    LET branch == DragBranch(over)
    IN  IF branch = "move"
        THEN MapStatusOrder(tasks, activeTask[1].id, targetColumnOf(over),
                            newOrderFor(targetColumnOf(over)))
        ELSE IF branch = "reorder" /\ oldIndexOf(over) # newIndexOf(over)
        THEN updatedTasksOf(over)
        ELSE tasks

\* the list handleDragEnd leaves in `tasks` before its first await
DragEndTasks(over) ==
    LET branch == DragBranch(over)
    IN  IF branch = "move"
        THEN MapStatusOrder(tasks, activeTask[1].id, targetColumnOf(over),
                            newOrderFor(targetColumnOf(over)))
        ELSE IF branch = "reorder" /\ oldIndexOf(over) # newIndexOf(over)
        THEN FilterNotStatus(tasks, targetColumnOf(over)) \o updatedTasksOf(over)
        ELSE tasks

\* the HTTP call handleDragEnd issues: <<>> when it issues none.  preStatus
\* and preOrder are history: the dragged task's entry in the list just before
\* the optimistic update
DragEndCall(over) ==
    LET branch == DragBranch(over)
    IN  IF branch = "move"
        THEN LET a == activeTask[1]
                 cur == FindTask(tasks, a.id)
             IN  <<[NoCall EXCEPT !.handler = "drag", !.call = "move",
                                  !.net = "sent", !.id = a.id,
                                  !.status = targetColumnOf(over),
                                  !.order = newOrderFor(targetColumnOf(over)),
                                  !.origStatus = a.status, !.origOrder = a.order,
                                  !.preStatus = IF cur = <<>> THEN NoId
                                                ELSE cur[1].status,
                                  !.preOrder = IF cur = <<>> THEN 0
                                               ELSE cur[1].order]>>
        ELSE IF branch = "reorder" /\ oldIndexOf(over) # newIndexOf(over)
        THEN <<[NoCall EXCEPT !.handler = "drag", !.call = "orders",
                              !.net = "sent",
                              !.updates = [k \in 1..Len(updatedTasksOf(over)) |->
                                  [id |-> updatedTasksOf(over)[k].id,
                                   order |-> updatedTasksOf(over)[k].order]]]>>
        ELSE <<>>

\* activeTask when handleDragEnd returns or suspends: setActiveTask(null) is
\* reached at once only when no call is awaited
DragEndActive(over) == IF DragEndCall(over) = <<>> THEN <<>> ELSE activeTask

handleDragEnd(over) ==
    /\ dragging # NoId
    /\ dragging' = NoId
    /\ Len(calls) + Len(DragEndCall(over)) <= MaxCalls
    /\ tasks' = DragEndTasks(over)
    /\ calls' = calls \o DragEndCall(over)
    /\ activeTask' = DragEndActive(over)
    /\ UNCHANGED <<boards, selectedTask, drawerOpen, isSubmitting, db, unhandled, ops>>

\* ------------------------------------------------------------ the drawer
handleTaskClick(id) ==
    /\ ~drawerOpen
    /\ dragging = NoId
    /\ ops < MaxOps
    /\ FindTask(tasks, id) # <<>>
    /\ selectedTask' = FindTask(tasks, id)
    /\ drawerOpen' = TRUE
    /\ ops' = ops + 1
    /\ UNCHANGED <<boards, tasks, activeTask, dragging, isSubmitting, db, calls, unhandled>>

\* the new task's status is the first column; it has no _id yet
handleAddTask ==
    /\ ~drawerOpen
    /\ dragging = NoId
    /\ ops < MaxOps
    /\ Len(columns) > 0
    /\ Cardinality(DOMAIN db) + Len(SelectSeq(calls, LAMBDA c : c.call = "create"))
          < NumTasks + MaxCreated
    /\ selectedTask' = <<[id |-> NoId, status |-> columns[1].id, order |-> 0,
                          checklist |-> <<>>]>>
    /\ drawerOpen' = TRUE
    /\ ops' = ops + 1
    /\ UNCHANGED <<boards, tasks, activeTask, dragging, isSubmitting, db, calls, unhandled>>

\* the drawer's backdrop or close button
onClose ==
    /\ drawerOpen
    /\ drawerOpen' = FALSE
    /\ UNCHANGED <<boards, tasks, activeTask, dragging, selectedTask, isSubmitting, db,
                   calls, unhandled, ops>>

\* TaskDrawer.handleSubmit up to the first await of handleTaskSave: the
\* payload carries the drawer's snapshot status and the form's checklist
handleTaskSave(cl) ==
    /\ drawerOpen
    /\ ~isSubmitting
    /\ selectedTask # <<>>
    /\ Len(calls) < MaxCalls
    /\ isSubmitting' = TRUE
    /\ LET t == selectedTask[1]
       IN  /\ calls' = Append(calls,
                 [NoCall EXCEPT !.handler = "save",
                                !.call = IF t.id # NoId THEN "update" ELSE "create",
                                !.net = "sent", !.id = t.id, !.status = t.status,
                                !.updates = cl])
    /\ UNCHANGED <<boards, tasks, activeTask, dragging, selectedTask, drawerOpen, db,
                   unhandled, ops>>

\* ------------------------------------------------------- the server's turn
NextId == Cardinality(DOMAIN db) + 1

\* the effect of serving call c on the collection
Served(c) ==
    IF c.call = "move" THEN moveTask(db, c.id, c.status, c.order)
    ELSE IF c.call = "automove" THEN moveTaskStatusOnly(db, c.id, c.status)
    ELSE IF c.call = "orders" THEN updateOrders(db, c.updates)
    ELSE IF c.call = "update" THEN updateTask(db, c.id, c.status, c.updates)
    ELSE IF c.call = "create"
         THEN createTask(db, NextId, c.boardId, c.status, c.updates, c.owner)
    ELSE IF c.call = "delete" THEN deleteTask(db, c.id)
    ELSE db

\* the response body of call c, computed on the collection after the write
Response(c, d) ==
    IF c.call = "refetch" THEN getTasksByBoard(d, c.boardId)
    ELSE IF c.call = "update" THEN <<DocOf(d, c.id)>>
    ELSE IF c.call = "create" THEN <<DocOf(d, NextId)>>
    ELSE <<>>

\* findByIdAndUpdate / findByIdAndDelete returned null: ApiError(404)
NotFound(c) ==
    c.call \in {"move", "automove", "update", "delete"} /\ c.id \notin DOMAIN db

\* errors as the middleware chain passes them to next(): a name and, for an
\* ApiError, its statusCode
NoError == [name |-> "none", statusCode |-> 0]

ApiError(statusCode) == [name |-> "ApiError", statusCode |-> statusCode]

CastError == [name |-> "CastError", statusCode |-> 0]

ValidationError == [name |-> "ValidationError", statusCode |-> 0]

TypeError == [name |-> "TypeError", statusCode |-> 0]

\* a plausible slip: the token is accepted without looking the user up
authenticateTokenOnly(c) ==
    IF c.auth \in {"noheader", "notbearer", "expired", "invalid"}
    THEN ApiError(401) ELSE NoError

\* router.use(authenticate): the header, the token, the user
authenticate(c) ==
    IF c.auth \in {"noheader", "notbearer"} THEN ApiError(401)
    ELSE IF c.auth = "expired" THEN ApiError(401)
    ELSE IF c.auth = "invalid" THEN ApiError(401)
    ELSE IF c.auth = "nouser" THEN ApiError(401)
    ELSE NoError

\* the routes that name authorizeBoard: /tasks/board/:boardId[/orders] and
\* PUT, DELETE /boards/:id
usesAuthorizeBoard(c) ==
    c.call \in {"refetch", "create", "orders", "updateboard", "deleteboard"}

\* authorizeBoard: the caller is the board's creator or one of its members
authorizeBoard(c) ==
    IF c.boardId \notin DOMAIN boards THEN ApiError(404)
    ELSE LET board == boards[c.boardId]
             isOwner == board.createdBy = c.user
             isMember == c.user \in board.members
         IN  IF ~isOwner /\ ~isMember THEN ApiError(403) ELSE NoError

\* what the controller's service call throws
serviceError(c) ==
    IF c.call \in {"move", "automove", "update", "delete"}
    THEN IF c.id = MalformedId THEN CastError
         ELSE IF c.call = "update" /\ c.body = "invalid" THEN ValidationError
         ELSE IF NotFound(c) THEN ApiError(404)
         ELSE NoError
    ELSE IF c.call = "orders" /\ c.body = "missing" THEN TypeError
    ELSE NoError

\* the first error on the request's way through the router
RequestError(c) ==
    IF authenticate(c) # NoError THEN authenticate(c)
    ELSE IF usesAuthorizeBoard(c) /\ authorizeBoard(c) # NoError
    THEN authorizeBoard(c)
    ELSE serviceError(c)

\* a plausible slip: only an ApiError is told apart from a server fault
errorHandlerApiOnly(err) ==
    IF err.name = "ApiError"
    THEN [code |-> err.statusCode, success |-> FALSE, message |-> TRUE]
    ELSE [code |-> 500, success |-> FALSE, message |-> TRUE]

\* app.use(errorHandler)
errorHandler(err) ==
    IF err.name = "ApiError"
    THEN [code |-> err.statusCode, success |-> FALSE, message |-> TRUE]
    ELSE IF err.name = "CastError"
    THEN [code |-> 400, success |-> FALSE, message |-> TRUE]
    ELSE IF err.name = "ValidationError"
    THEN [code |-> 400, success |-> FALSE, message |-> TRUE]
    ELSE [code |-> 500, success |-> FALSE, message |-> TRUE]

\* responseHandler(res, statusCode, data): {success: true, data}
responseHandler(statusCode) ==
    [code |-> statusCode, success |-> TRUE, message |-> FALSE]

\* the middleware chain and the controller run and answer
Serve(i) ==
    /\ calls[i].net = "sent"
    /\ LET c == calls[i]
           err == RequestError(c)
       IN  IF err # NoError
           THEN /\ calls' = [calls EXCEPT ![i].net = "err",
                                 ![i].code = errorHandler(err).code,
                                 ![i].success = errorHandler(err).success,
                                 ![i].message = errorHandler(err).message]
                /\ UNCHANGED db
           ELSE LET r == responseHandler(IF c.call = "create" THEN 201 ELSE 200)
                IN  /\ db' = Served(c)
                    /\ calls' = [calls EXCEPT ![i].net = "ok",
                                     ![i].resp = Response(c, db'),
                                     ![i].code = r.code,
                                     ![i].success = r.success,
                                     ![i].message = r.message]
    /\ UNCHANGED <<boards, tasks, activeTask, dragging, selectedTask, drawerOpen,
                   isSubmitting, unhandled, ops>>

\* the request never reaches the controller (network failure, 30 s timeout)
RequestLost(i) ==
    /\ calls[i].net = "sent"
    /\ calls' = [calls EXCEPT ![i].net = "err"]
    /\ UNCHANGED <<boards, tasks, activeTask, dragging, selectedTask, drawerOpen,
                   isSubmitting, db, unhandled, ops>>

\* ------------------------------------------- the handlers after their await
\* handleDragEnd resumes after TaskService.move
DragMoveDone(i) ==
    LET c == calls[i]
    IN  /\ c.handler = "drag" /\ c.call = "move" /\ c.net \in {"ok", "err"}
        /\ tasks' = IF c.net = "err"
                    THEN MapStatusOrder(tasks, c.id, c.origStatus, c.origOrder)
                    ELSE tasks
        /\ activeTask' = <<>>
        /\ calls' = RemoveCall(i)
        /\ UNCHANGED <<boards, dragging, selectedTask, drawerOpen, isSubmitting, db,
                       unhandled, ops>>

\* handleDragEnd resumes after TaskService.updateOrders
DragOrdersDone(i) ==
    LET c == calls[i]
    IN  /\ c.handler = "drag" /\ c.call = "orders" /\ c.net \in {"ok", "err"}
        /\ IF c.net = "ok"
           THEN /\ activeTask' = <<>>
                /\ calls' = RemoveCall(i)
           ELSE /\ calls' = [calls EXCEPT ![i] =
                       [NoCall EXCEPT !.handler = "drag", !.call = "refetch",
                                      !.net = "sent"]]
                /\ UNCHANGED activeTask
        /\ UNCHANGED <<boards, tasks, dragging, selectedTask, drawerOpen, isSubmitting,
                       db, unhandled, ops>>

\* handleDragEnd resumes, inside its catch block, after TaskService.getByBoard
DragRefetchDone(i) ==
    LET c == calls[i]
    IN  /\ c.handler = "drag" /\ c.call = "refetch" /\ c.net \in {"ok", "err"}
        /\ IF c.net = "ok"
           THEN /\ tasks' = SortByOrder(c.resp)
                /\ activeTask' = <<>>
                /\ UNCHANGED unhandled
           ELSE /\ unhandled' = unhandled \cup {"handleDragEnd"}
                /\ UNCHANGED <<tasks, activeTask>>
        /\ calls' = RemoveCall(i)
        /\ UNCHANGED <<boards, dragging, selectedTask, drawerOpen, isSubmitting, db, ops>>

\* result.checklist && result.checklist.length > 0
hasChecklist(result) == Len(result.checklist) > 0

\* hasChecklist && result.checklist.every(item => item.completed)
allCompleted(result) ==
    hasChecklist(result) /\ \A k \in 1..Len(result.checklist) : result.checklist[k]

\* columns.reduce((max, col) => (col.order > max.order ? col : max), columns[0])
RECURSIVE ReduceMax(_, _)
ReduceMax(cols, max) ==
    IF cols = <<>> THEN max
    ELSE ReduceMax(Tail(cols), IF cols[1].order > max.order THEN cols[1] ELSE max)

\* a plausible slip: the first column instead of the one of highest order
doneColumnFirst == columns[1]

\* a plausible slip: the literal 'done' is taken for the last column's id
doneColumnLiteral == [id |-> DoneLiteral, order |-> 0]

doneColumn == ReduceMax(columns, columns[1])

\* the condition under which handleTaskSave calls handleTaskMove
autoMoves(result) ==
    hasChecklist(result) /\ allCompleted(result) /\ result.status # DoneLiteral
        /\ Len(columns) > 0

\* handleTaskSave resumes after TaskService.update / TaskService.create
SaveDone(i) ==
    LET c == calls[i]
    IN  /\ c.handler = "save" /\ c.call \in {"update", "create"}
        /\ c.net \in {"ok", "err"}
        /\ IF c.net = "ok"
           THEN LET result == c.resp[1]
                IN  /\ tasks' = IF c.call = "update"
                                THEN MapReplace(tasks, c.id, result)
                                ELSE Append(tasks, result)
                    /\ IF autoMoves(result)
                       THEN /\ calls' = [calls EXCEPT ![i] =
                                   [NoCall EXCEPT !.handler = "save",
                                                  !.call = "automove",
                                                  !.net = "sent",
                                                  !.id = result.id,
                                                  !.status = doneColumn.id]]
                            /\ UNCHANGED <<drawerOpen, isSubmitting>>
                       ELSE /\ calls' = RemoveCall(i)
                            /\ drawerOpen' = FALSE
                            /\ isSubmitting' = FALSE
           ELSE /\ calls' = RemoveCall(i)
                /\ drawerOpen' = FALSE
                /\ isSubmitting' = FALSE
                /\ UNCHANGED tasks
        /\ UNCHANGED <<boards, activeTask, dragging, selectedTask, db, unhandled, ops>>

\* handleTaskMove resumes after TaskService.move, then handleTaskSave ends
AutoMoveDone(i) ==
    LET c == calls[i]
    IN  /\ c.handler = "save" /\ c.call = "automove" /\ c.net \in {"ok", "err"}
        /\ tasks' = IF c.net = "ok" THEN MapStatus(tasks, c.id, c.status) ELSE tasks
        /\ calls' = RemoveCall(i)
        /\ drawerOpen' = FALSE
        /\ isSubmitting' = FALSE
        /\ UNCHANGED <<boards, activeTask, dragging, selectedTask, db, unhandled, ops>>

Next ==
    \/ \E id \in 1..(NumTasks + MaxCreated) : handleDragStart(id)
    \/ \E over \in 1..(NumTasks + MaxCreated) \cup ColumnIds \cup {NoId, UnknownId} :
           handleDragEnd(over)
    \/ \E id \in 1..(NumTasks + MaxCreated) : handleTaskClick(id)
    \/ handleAddTask
    \/ onClose
    \/ \E cl \in Checklists : handleTaskSave(cl)
    \/ \E i \in 1..Len(calls) : Serve(i)
    \/ \E i \in 1..Len(calls) : RequestLost(i)
    \/ \E i \in 1..Len(calls) : DragMoveDone(i)
    \/ \E i \in 1..Len(calls) : DragOrdersDone(i)
    \/ \E i \in 1..Len(calls) : DragRefetchDone(i)
    \/ \E i \in 1..Len(calls) : SaveDone(i)
    \/ \E i \in 1..Len(calls) : AutoMoveDone(i)

Spec == Init /\ [][Next]_vars

\* ------------------------------------------------------ the server's API
\* The task routes as any HTTP client can call them: a request arrives, runs
\* through authenticate, authorizeBoard (on the board routes) and the
\* controller, and is answered.  `calls` holds the request being handled.
OtherColumnId == 111

\* the board's tasks as created, in any columns, and a task of the other board
InitServerDbs ==
    {[id \in TaskIds \cup {ForeignTaskId} |->
         IF id = ForeignTaskId
         THEN [status |-> OtherColumnId, order |-> DefaultOrder,
               checklist |-> <<>>, boardId |-> OtherBoardId, owner |-> NoId]
         ELSE [status |-> st[id], order |-> DefaultOrder, checklist |-> <<>>,
               boardId |-> BoardId, owner |-> NoId]] :
        st \in [TaskIds -> ColumnIds]}

InitServer ==
    /\ db \in InitServerDbs
    /\ tasks = SortByOrder(getTasksByBoard(db, BoardId))
    /\ activeTask = <<>>
    /\ dragging = NoId
    /\ selectedTask = <<>>
    /\ drawerOpen = FALSE
    /\ isSubmitting = FALSE
    /\ calls = <<>>
    /\ unhandled = {}
    /\ ops = 0
    /\ boards = Boards

\* who calls: no or a wrong Authorization header, a bad token, a token of a
\* deleted user, or a valid token of one of the users
Callers ==
    {[auth |-> a, user |-> NoId] :
        a \in {"noheader", "notbearer", "expired", "invalid", "nouser"}}
        \cup {[auth |-> "valid", user |-> u] : u \in Users}

RequestIds == {1, ForeignTaskId, UnknownId, MalformedId}

RequestColumns == {columns[1].id, doneColumn.id}

RequestOrders == {0, 1}

\* bodies of PATCH /board/:boardId/orders: one task, an id that does not
\* exist before a task, a task of the board with a task of the other board
OrderUpdates ==
    UNION {{<<[id |-> 1, order |-> o]>>,
            <<[id |-> UnknownId, order |-> 0], [id |-> 1, order |-> o]>>,
            <<[id |-> 1, order |-> o], [id |-> ForeignTaskId, order |-> o]>>} :
           o \in RequestOrders}

ApiCall(kind) == [NoCall EXCEPT !.handler = "api", !.call = kind, !.net = "sent"]

\* the requests of one caller, without the caller
Payloads ==
    {[ApiCall("move") EXCEPT !.id = id, !.status = s, !.order = o] :
        id \in RequestIds, s \in RequestColumns, o \in RequestOrders}
    \cup {[ApiCall("orders") EXCEPT !.boardId = b, !.updates = u] :
        b \in DOMAIN Boards, u \in OrderUpdates}
    \cup {[ApiCall("orders") EXCEPT !.boardId = b, !.body = "missing"] :
        b \in DOMAIN Boards}
    \cup {[ApiCall("refetch") EXCEPT !.boardId = b] :
        b \in DOMAIN Boards \cup {UnknownBoardId}}
    \cup {[ApiCall("delete") EXCEPT !.id = id] : id \in {1, UnknownId}}
    \cup {[ApiCall("update") EXCEPT !.id = 1, !.status = columns[1].id,
                                    !.body = b] : b \in {"ok", "invalid"}}

Requests ==
    {[p EXCEPT !.auth = who.auth, !.user = who.user] :
        p \in Payloads, who \in Callers}

\* a request arrives once the one before it has been answered
Arrive(c) ==
    /\ \A i \in 1..Len(calls) : calls[i].net # "sent"
    /\ calls' = <<c>>
    /\ UNCHANGED <<boards, tasks, activeTask, dragging, selectedTask, drawerOpen,
                   isSubmitting, db, unhandled, ops>>

NextServer ==
    \/ \E c \in Requests : Arrive(c)
    \/ \E i \in 1..Len(calls) : Serve(i)

SpecServer == InitServer /\ [][NextServer]_vars

\* ================================================================ claims
\* the step in which handleDragEnd issues its call: the call is appended
DragIssues(kind) ==
    /\ Len(calls') = Len(calls) + 1
    /\ SubSeq(calls', 1, Len(calls)) = calls
    /\ calls'[Len(calls')].handler = "drag"
    /\ calls'[Len(calls')].call = kind

IssuedCall == calls'[Len(calls')]

\* C1: in a cross-column drag the dragged task gets order 0 when the target
\* column holds no task and otherwise the column's maximum order + 1, which is
\* greater than the order of every task already in the target column
C1_NewOrder ==
    [][DragIssues("move") =>
          LET c == IssuedCall
              target == FilterStatus(tasks, c.status)
              me == FindTask(tasks', c.id)
          IN  /\ me # <<>>
              /\ me[1].status = c.status
              /\ me[1].order = c.order
              /\ (target = <<>> => me[1].order = 0)
              /\ (target # <<>> =>
                     /\ \E k \in 1..Len(target) : me[1].order = target[k].order + 1
                     /\ \A k \in 1..Len(target) : target[k].order < me[1].order)]_vars

\* a move into a column that already held a task of order 1 is in flight
C1_Witness ==
    \E i \in 1..Len(calls) :
        /\ calls[i].handler = "drag" /\ calls[i].call = "move"
        /\ calls[i].net = "sent" /\ calls[i].order = 2
        /\ \E k \in 1..Len(tasks) :
               /\ tasks[k].id # calls[i].id
               /\ tasks[k].status = calls[i].status
               /\ tasks[k].order = 1

\* C3: a cross-column drag changes only the status and order of the dragged
\* task in the client's list; every other task keeps its place, status and
\* order, so the column left behind is not renumbered
C3_OnlyDraggedChanges ==
    [][DragIssues("move") =>
          LET c == IssuedCall
          IN  /\ Len(tasks') = Len(tasks)
              /\ \A k \in 1..Len(tasks) :
                     IF tasks[k].id = c.id
                     THEN /\ tasks'[k].id = tasks[k].id
                          /\ tasks'[k].checklist = tasks[k].checklist
                     ELSE tasks'[k] = tasks[k]]_vars

\* a task was moved out of a column in which a task of order 1 remains
C3_Witness ==
    \E i \in 1..Len(calls) :
        /\ calls[i].handler = "drag" /\ calls[i].call = "move"
        /\ calls[i].net = "sent"
        /\ calls[i].preStatus # calls[i].status
        /\ \E k \in 1..Len(tasks) :
               /\ tasks[k].id # calls[i].id
               /\ tasks[k].status = calls[i].preStatus
               /\ tasks[k].order = 1

\* ids of every task the board can hold
AllTaskIds == 1..(NumTasks + MaxCreated)

\* the list's entry of the card being dragged
Dragged == FindTask(tasks, dragging)

IdsOf(list) == [k \in 1..Len(list) |-> list[k].id]

\* C2: when handleDragEnd reorders within a column (the dragged task is
\* dropped on a different task of the column it is in), the column's tasks
\* sorted by order are rearranged by array-move: the dragged task leaves its
\* index and is reinserted at the target task's index, the others keep their
\* sequence, and every task of the column gets its new 0-based index as order
C2_ArrayMove ==
    \A over \in AllTaskIds :
        (/\ dragging # NoId
         /\ DragBranch(over) = "reorder"
         /\ FindIndex(SortByOrder(FilterStatus(tasks, targetColumnOf(over))),
                      dragging) >= 0)
        => LET col == targetColumnOf(over)
               before == SortByOrder(FilterStatus(tasks, col))
               after == FilterStatus(DragEndTasks(over), col)
               from == FindIndex(before, dragging)
               to == FindIndex(before, over)
               call == DragEndCall(over)
           IN  /\ Len(after) = Len(before)
               /\ \A k \in 1..Len(after) : after[k].order = k - 1
               /\ from # to
               /\ after[to + 1].id = dragging
               /\ IdsOf(RemoveAt(after, to)) = IdsOf(RemoveAt(before, from))
               /\ \A k \in 1..Len(before) :
                      [before[k] EXCEPT !.order = 0]
                          = [InsertAt(RemoveAt(after, to), from, after[to + 1])[k]
                                EXCEPT !.order = 0]
               /\ FilterNotStatus(DragEndTasks(over), col) = FilterNotStatus(tasks, col)
               /\ Len(call) = 1
               /\ call[1].call = "orders"
               /\ call[1].updates =
                      [k \in 1..Len(after) |-> [id |-> after[k].id, order |-> k - 1]]

\* the first of a column of three was dropped on the last: B = 0, C = 1, A = 2
C2_Witness ==
    /\ activeTask # <<>>
    /\ activeTask[1].id = 1
    /\ activeTask[1].order = 0
    /\ \E i \in 1..Len(calls) :
           /\ calls[i].call = "orders" /\ calls[i].net = "sent"
           /\ Len(calls[i].updates) = 3
           /\ calls[i].updates[3] = [id |-> 1, order |-> 2]
           /\ \A k \in 1..3 :
                  \E j \in 1..Len(tasks) :
                      /\ tasks[j].id = calls[i].updates[k].id
                      /\ tasks[j].order = k - 1
                      /\ tasks[j].status = activeTask[1].status

\* the step in which a handler resumes from call i and drops it
Resumes(i, handler, kind, net) ==
    /\ calls[i].handler = handler
    /\ calls[i].call = kind
    /\ calls[i].net = net
    /\ calls' = RemoveAt(calls, i - 1)

\* C4: when the move call of a cross-column drag fails, the rollback gives
\* the dragged task the status and order it had in the list before the move,
\* changes no other task, and the handler completes normally
C4_RollbackRestores ==
    [][\A i \in 1..Len(calls) :
          Resumes(i, "drag", "move", "err") =>
              /\ Len(tasks') = Len(tasks)
              /\ \A k \in 1..Len(tasks) :
                     IF tasks[k].id = calls[i].id
                     THEN /\ tasks'[k].status = calls[i].preStatus
                          /\ tasks'[k].order = calls[i].preOrder
                     ELSE tasks'[k] = tasks[k]
              /\ unhandled' = unhandled
              /\ activeTask' = <<>>]_vars

\* the list holds exactly the server's tasks, each once, with the server's
\* status and order
SameAsServer(list, d) ==
    /\ Len(list) = Cardinality(DOMAIN d)
    /\ \A k \in 1..Len(list) :
           /\ list[k].id \in DOMAIN d
           /\ list[k].status = d[list[k].id].status
           /\ list[k].order = d[list[k].id].order
    /\ \A j, k \in 1..Len(list) : list[j].id = list[k].id => j = k

\* C5: when the bulk-order call of a reorder has failed and the recovery
\* (the refetch) completes, the client's list equals the server's task list
C5_RefetchConverges ==
    [][\A i \in 1..Len(calls) :
          Resumes(i, "drag", "refetch", "ok") => SameAsServer(tasks', db')]_vars

\* ------------------------------------------------------------------------
\* the board used for same-column reorders only, every call succeeding
DragEndInColumn(over) == DragBranch(over) # "move" /\ handleDragEnd(over)

NextReorder ==
    \/ \E id \in AllTaskIds : handleDragStart(id)
    \/ \E over \in AllTaskIds \cup ColumnIds \cup {NoId, UnknownId} :
           DragEndInColumn(over)
    \/ \E i \in 1..Len(calls) : Serve(i)
    \/ \E i \in 1..Len(calls) : DragOrdersDone(i)

SpecReorder == Init /\ [][NextReorder]_vars

\* what the Column component shows: the list filtered by the column
Displayed(col) == IdsOf(FilterStatus(tasks, col))

\* what a reload shows: getByBoard, sorted by order, filtered by the column
Refetched(col) ==
    IdsOf(FilterStatus(SortByOrder(getTasksByBoard(db, BoardId)), col))

\* the ids in `ids` are in ascending order of their persisted order
AscendingOnServer(ids) ==
    \A j, k \in 1..Len(ids) : j < k => db[ids[j]].order <= db[ids[k]].order

\* C6: after any sequence of successful same-column reorders, every column
\* is displayed in the sequence of its tasks sorted by persisted order, and a
\* refetch followed by the client's sort yields the same sequence
C6_RoundTrip ==
    calls = <<>> =>
        \A col \in ColumnIds :
            /\ AscendingOnServer(Displayed(col))
            /\ Displayed(col) = Refetched(col)

\* ------------------------------------------------------------------------
\* handleTaskSave resumes from its update/create call i and goes on to
\* handleTaskMove: the call is replaced by the auto-move's call
AutoMoveIssued(i) ==
    /\ calls[i].handler = "save"
    /\ calls[i].call \in {"update", "create"}
    /\ Len(calls') = Len(calls)
    /\ calls'[i].call = "automove"

\* the list shows the change that call c asks the server for: a column in
\* the sequence and with the orders of the bulk update, or the moved task
\* with the status (and order) of the move
Reflects(list, c) ==
    IF c.call = "orders"
    THEN \E col \in ColumnIds :
             c.updates = [k \in 1..Len(FilterStatus(list, col)) |->
                             [id |-> FilterStatus(list, col)[k].id,
                              order |-> FilterStatus(list, col)[k].order]]
    ELSE \A k \in 1..Len(list) :
             list[k].id = c.id =>
                 /\ list[k].status = c.status
                 /\ c.call = "move" => list[k].order = c.order

\* C7 as claimed: for the cross-column drag, the same-column reorder and the
\* checklist auto-move alike, the client's list is updated before the
\* network call is issued
C7_AlwaysOptimistic ==
    [][/\ DragIssues("move") => Reflects(tasks', IssuedCall)
       /\ DragIssues("orders") => Reflects(tasks', IssuedCall)
       /\ \A i \in 1..Len(calls) :
              AutoMoveIssued(i) => Reflects(tasks', calls'[i])]_vars

\* C7 amended: the drag handler updates the client's list before it issues
\* its move or bulk-order call; the checklist auto-move issues its call
\* having only stored the task as saved in the list, and sets the new status
\* when the call has succeeded
C7_OptimisticDragLateAutoMove ==
    [][/\ DragIssues("move") => Reflects(tasks', IssuedCall)
       /\ DragIssues("orders") => Reflects(tasks', IssuedCall)
       /\ \A i \in 1..Len(calls) :
              AutoMoveIssued(i) =>
                  \A k \in 1..Len(tasks') :
                      \/ tasks'[k] = calls[i].resp[1]
                      \/ k <= Len(tasks) /\ tasks'[k] = tasks[k]
       /\ \A i \in 1..Len(calls) :
              Resumes(i, "save", "automove", "ok") =>
                  Reflects(tasks', calls[i])]_vars

\* an auto-move is in flight with the list still showing the old column,
\* next to a drag's move call that the list already shows
C7_Witness ==
    \E i, j \in 1..Len(calls) :
        /\ calls[i].call = "automove" /\ calls[i].net = "sent"
        /\ \E k \in 1..Len(tasks) :
               tasks[k].id = calls[i].id /\ tasks[k].status # calls[i].status
        /\ calls[j].handler = "drag" /\ calls[j].call = "move"
        /\ calls[j].net = "sent"
        /\ \E k \in 1..Len(tasks) :
               /\ tasks[k].id = calls[j].id
               /\ tasks[k].status = calls[j].status
               /\ tasks[k].status # calls[j].preStatus

\* C8: no execution of handleDragEnd ends with an uncaught error
C8_AllErrorsCaught == "handleDragEnd" \notin unhandled

\* the drops that are no operation: no target, an id that is neither column
\* nor task, the dragged task itself, the column the dragged task is in
NoOpDrop(over) ==
    \/ over = NoId
    \/ over \notin ColumnIds /\ FindTask(tasks, over) = <<>>
    \/ over = dragging
    \/ Dragged # <<>> /\ over = Dragged[1].status

\* C9: a drag that ends on a no-operation drop leaves the client's list
\* unchanged, issues no network call and clears the active dragged task
C9_NoOpDrops ==
    dragging # NoId =>
        \A over \in AllTaskIds \cup ColumnIds \cup {NoId, UnknownId} :
            NoOpDrop(over) =>
                /\ DragEndTasks(over) = tasks
                /\ DragEndCall(over) = <<>>
                /\ DragEndActive(over) = <<>>

\* the ids of the columns whose order no other column exceeds
HighestColumnIds ==
    {columns[i].id : i \in {i \in 1..Len(columns) :
        \A j \in 1..Len(columns) : columns[j].order <= columns[i].order}}

\* handleTaskSave resumes from its successful update/create call i
SaveResumes(i) ==
    /\ calls[i].handler = "save"
    /\ calls[i].call \in {"update", "create"}
    /\ calls[i].net = "ok"
    /\ \/ calls' = RemoveAt(calls, i - 1)
       \/ Len(calls') = Len(calls) /\ calls'[i] # calls[i]

\* C10: whenever a task is saved with a non-empty checklist whose items are
\* all completed and it is not in the column of highest order, the client
\* issues a move of that task to the column of highest order; when the move
\* has succeeded the task's status in the client's list is that column's id
C10_AutoMove ==
    [][/\ \A i \in 1..Len(calls) :
              (/\ SaveResumes(i)
               /\ calls[i].resp[1].checklist # <<>>
               /\ \A k \in 1..Len(calls[i].resp[1].checklist) :
                      calls[i].resp[1].checklist[k]
               /\ calls[i].resp[1].status \notin HighestColumnIds)
              => /\ Len(calls') = Len(calls)
                 /\ calls'[i].call = "automove"
                 /\ calls'[i].net = "sent"
                 /\ calls'[i].id = calls[i].resp[1].id
                 /\ calls'[i].status \in HighestColumnIds
       /\ \A i \in 1..Len(calls) :
              Resumes(i, "save", "automove", "ok") =>
                  /\ calls[i].status \in HighestColumnIds
                  /\ \A k \in 1..Len(tasks') :
                         tasks'[k].id = calls[i].id =>
                             tasks'[k].status = calls[i].status]_vars

\* a task opened in another column was saved with a completed checklist and,
\* with no drag made, is now shown in the column of highest order
C10_Witness ==
    /\ ops = 1
    /\ calls = <<>>
    /\ ~isSubmitting
    /\ selectedTask # <<>>
    /\ selectedTask[1].status \notin HighestColumnIds
    /\ \E k \in 1..Len(tasks) :
           /\ tasks[k].id = selectedTask[1].id
           /\ tasks[k].checklist = <<TRUE>>
           /\ tasks[k].status \in HighestColumnIds
           /\ db[tasks[k].id].status = tasks[k].status

\* ------------------------------------------------------------------------
\* the step in which the server answers request i
Answered(i) ==
    /\ calls[i].net = "sent"
    /\ Len(calls') = Len(calls)
    /\ calls'[i].net # "sent"
    /\ calls'[i].code # 0

\* request i is handed to its controller: it passes authenticate and, on a
\* board route, authorizeBoard
ReachesController(c) ==
    /\ authenticate(c) = NoError
    /\ usesAuthorizeBoard(c) => authorizeBoard(c) = NoError

\* C11: a move request for an existing task sets exactly that task's status
\* and order to the given values, leaves every other task as it is and
\* succeeds; a move request for an id no task has is answered 404 Not Found
\* and changes no task
C11_MoveTask ==
    [][\A i \in 1..Len(calls) :
          (/\ Answered(i)
           /\ calls[i].call = "move"
           /\ ReachesController(calls[i])
           /\ calls[i].id # MalformedId)
          => LET c == calls[i]
             IN  IF c.id \in DOMAIN db
                 THEN /\ calls'[i].success /\ calls'[i].code = 200
                      /\ DOMAIN db' = DOMAIN db
                      /\ db'[c.id] = [db[c.id] EXCEPT !.status = c.status,
                                                      !.order = c.order]
                      /\ \A x \in DOMAIN db \ {c.id} : db'[x] = db[x]
                 ELSE /\ ~calls'[i].success /\ calls'[i].code = 404
                      /\ calls'[i].message
                      /\ db' = db]_vars

\* a move of task 1 to another column and order has been answered 200
C11_Witness ==
    /\ Len(calls) = 1
    /\ calls[1].handler = "api" /\ calls[1].call = "move"
    /\ calls[1].id = 1 /\ calls[1].code = 200
    /\ calls[1].order = 1
    /\ 1 \in DOMAIN db
    /\ db[1].status = calls[1].status /\ db[1].order = 1
    /\ \E x \in DOMAIN db \ {1} : db[x].status # db[1].status

\* the ids listed in a bulk-order body
ListedIds(updates) == {updates[k].id : k \in 1..Len(updates)}

\* C12: a bulk-order request gives every listed task that exists its listed
\* order, skips listed ids that do not exist, succeeds all the same, and
\* changes neither the status of a listed task nor anything of an unlisted one
C12_UpdateOrders ==
    [][\A i \in 1..Len(calls) :
          (/\ Answered(i)
           /\ calls[i].call = "orders"
           /\ ReachesController(calls[i])
           /\ calls[i].body = "ok")
          => LET c == calls[i]
             IN  /\ calls'[i].success /\ calls'[i].code = 200
                 /\ DOMAIN db' = DOMAIN db
                 /\ \A k \in 1..Len(c.updates) :
                        c.updates[k].id \in DOMAIN db =>
                            db'[c.updates[k].id] =
                                [db[c.updates[k].id] EXCEPT
                                    !.order = c.updates[k].order]
                 /\ \A x \in DOMAIN db \ ListedIds(c.updates) :
                        db'[x] = db[x]]_vars

\* a bulk-order request listing an id that does not exist before task 1 has
\* been answered 200 and task 1 has the listed order
C12_Witness ==
    /\ Len(calls) = 1
    /\ calls[1].call = "orders" /\ calls[1].code = 200
    /\ Len(calls[1].updates) = 2
    /\ calls[1].updates[1].id \notin DOMAIN db
    /\ calls[1].updates[2] = [id |-> 1, order |-> 1]
    /\ 1 \in DOMAIN db /\ db[1].order = 1

\* the user is the board's creator or one of its listed members
IsOfBoard(user, b) ==
    /\ b \in DOMAIN boards
    /\ boards[b].createdBy = user \/ user \in boards[b].members

\* the boards that own the tasks request c would change or return
AffectedBoards(c) ==
    IF c.call = "move"
    THEN {db[x].boardId : x \in {c.id} \cap DOMAIN db}
    ELSE IF c.call = "orders"
    THEN {db[x].boardId : x \in ListedIds(c.updates) \cap DOMAIN db}
    ELSE IF c.call = "refetch" THEN {c.boardId} \cap DOMAIN Boards
    ELSE {}

\* C13: a move, bulk-order or board-tasks request of an authenticated caller
\* who is neither creator nor member of a board owning a task the request
\* affects is rejected, changes no task and returns no task
C13_NonMembersRejected ==
    [][\A i \in 1..Len(calls) :
          (/\ Answered(i)
           /\ calls[i].call \in {"move", "orders", "refetch"}
           /\ calls[i].auth = "valid"
           /\ \E b \in AffectedBoards(calls[i]) : ~IsOfBoard(calls[i].user, b))
          => /\ ~calls'[i].success
             /\ calls'[i].resp = <<>>
             /\ db' = db]_vars

\* C14: a bulk-order request for board :boardId changes no task of another
\* board, listed or not
C14_OrdersStayOnBoard ==
    [][\A i \in 1..Len(calls) :
          (Answered(i) /\ calls[i].call = "orders")
          => \A x \in DOMAIN db :
                 db[x].boardId # calls[i].boardId => db'[x] = db[x]]_vars

\* C15: a request without a Bearer header, with an invalid or expired token,
\* or with a token of a user that no longer exists is answered 401 with an
\* error body and reaches no controller: no task is changed or returned
C15_AuthenticateFirst ==
    [][\A i \in 1..Len(calls) :
          (Answered(i) /\ calls[i].auth # "valid")
          => /\ calls'[i].code = 401
             /\ ~calls'[i].success
             /\ calls'[i].message
             /\ calls'[i].resp = <<>>
             /\ db' = db]_vars

\* a move of an existing task sent with the token of a deleted user has been
\* answered 401 and the task is as it was created
C15_Witness ==
    /\ Len(calls) = 1
    /\ calls[1].call = "move" /\ calls[1].auth = "nouser"
    /\ calls[1].code = 401
    /\ calls[1].id \in DOMAIN db
    /\ calls[1].order # db[calls[1].id].order

\* ------------------------------------------------------------------------
\* the board without the creation of tasks: drags, their rollbacks and
\* refetches, and saves of existing tasks with their auto-moves
NextMoves ==
    \/ \E id \in AllTaskIds : handleDragStart(id)
    \/ \E over \in AllTaskIds \cup ColumnIds \cup {NoId, UnknownId} :
           handleDragEnd(over)
    \/ \E id \in AllTaskIds : handleTaskClick(id)
    \/ onClose
    \/ \E cl \in Checklists : handleTaskSave(cl)
    \/ \E i \in 1..Len(calls) : Serve(i)
    \/ \E i \in 1..Len(calls) : RequestLost(i)
    \/ \E i \in 1..Len(calls) : DragMoveDone(i)
    \/ \E i \in 1..Len(calls) : DragOrdersDone(i)
    \/ \E i \in 1..Len(calls) : DragRefetchDone(i)
    \/ \E i \in 1..Len(calls) : SaveDone(i)
    \/ \E i \in 1..Len(calls) : AutoMoveDone(i)

SpecMoves == Init /\ [][NextMoves]_vars

\* the number of entries the client's list has for task id
Entries(id) == Cardinality({k \in 1..Len(tasks) : tasks[k].id = id})

\* the columns that display task id
ColumnsShowing(id) ==
    {col \in ColumnIds : \E k \in 1..Len(tasks) :
        tasks[k].id = id /\ tasks[k].status = col}

\* C16: after any sequence of drags, rollbacks, refetches and auto-moves
\* every task of the board has exactly one entry in the client's list, the
\* list has no other entry, and the task is displayed in exactly one column
C16_EachTaskOnce ==
    /\ \A id \in DOMAIN db : Entries(id) = 1
    /\ Len(tasks) = Cardinality(DOMAIN db)
    /\ \A id \in DOMAIN db : Cardinality(ColumnsShowing(id)) = 1

\* a failed reorder's refetch has been answered while a later cross-column
\* drag, already shown in the list, is in flight
C16_Witness ==
    \E i, j \in 1..Len(calls) :
        /\ calls[i].handler = "drag" /\ calls[i].call = "refetch"
        /\ calls[i].net = "ok"
        /\ calls[j].handler = "drag" /\ calls[j].call = "move"
        /\ calls[j].preStatus # calls[j].status
        /\ \E k \in 1..Len(tasks) :
               tasks[k].id = calls[j].id /\ tasks[k].status = calls[j].status

\* C17: every task's status, in the client's list and on the server, is one
\* of the board's column ids after any sequence of cross-column drags,
\* reorders, rollbacks, refetches and checklist auto-moves; a task can be
\* taken from any column to any other
C17_StatusIsColumn ==
    /\ \A k \in 1..Len(tasks) : tasks[k].status \in ColumnIds
    /\ \A id \in DOMAIN db : db[id].status \in ColumnIds
    /\ \A i \in 1..Len(calls) :
           calls[i].call \in {"move", "automove", "update", "create"}
               => calls[i].status \in ColumnIds
    /\ (dragging # NoId /\ activeTask # <<>>) =>
           \A col \in ColumnIds \ {activeTask[1].status} :
               /\ \A k \in 1..Len(tasks) :
                      tasks[k].id = activeTask[1].id =>
                          DragEndTasks(col)[k].status = col
               /\ Len(DragEndCall(col)) = 1
               /\ DragEndCall(col)[1].call = "move"
               /\ DragEndCall(col)[1].status = col

\* two drags have been stored by the server, one from the first column to
\* the last and one from the last column to the first
C17_Witness ==
    \E i, j \in 1..Len(calls) :
        /\ calls[i].call = "move" /\ calls[i].net = "ok"
        /\ calls[i].preStatus = columns[1].id
        /\ calls[i].status = columns[Len(columns)].id
        /\ db[calls[i].id].status = calls[i].status
        /\ calls[j].call = "move" /\ calls[j].net = "ok"
        /\ calls[j].preStatus = columns[Len(columns)].id
        /\ calls[j].status = columns[1].id
        /\ db[calls[j].id].status = calls[j].status

\* the order request c writes to task id: <<>> when it writes none
OrderWritten(c, id) ==
    IF c.call = "move" /\ c.id = id THEN <<c.order>>
    ELSE IF c.call = "orders"
    THEN LET hits == SelectSeq(c.updates, LAMBDA u : u.id = id)
         IN  IF hits = <<>> THEN <<>> ELSE <<hits[Len(hits)].order>>
    ELSE <<>>

\* the status request c writes to task id: <<>> when it writes none
StatusWritten(c, id) ==
    IF c.call \in {"move", "automove"} /\ c.id = id THEN <<c.status>> ELSE <<>>

\* C18: the server applies move and bulk-order requests in whatever order
\* they reach it; none is rejected because the task was written in between,
\* and after each application the task's stored status and order are those
\* the request wrote, whatever was stored before (the last write wins)
C18_LastWriteWins ==
    [][\A i \in 1..Len(calls) :
          (/\ Answered(i)
           /\ calls[i].call \in {"move", "automove", "orders"}
           /\ ReachesController(calls[i])
           /\ calls[i].body = "ok"
           /\ calls[i].id \in DOMAIN db \cup {NoId})
          => /\ calls'[i].success
             /\ \A id \in DOMAIN db :
                    /\ db'[id].order =
                           IF OrderWritten(calls[i], id) # <<>>
                           THEN OrderWritten(calls[i], id)[1]
                           ELSE db[id].order
                    /\ db'[id].status =
                           IF StatusWritten(calls[i], id) # <<>>
                           THEN StatusWritten(calls[i], id)[1]
                           ELSE db[id].status]_vars

\* two overlapping requests that wrote different orders to the same task have
\* both been accepted, the one issued first applied last: its order is stored
C18_Witness ==
    \E i, j \in 1..Len(calls) :
        \E id \in DOMAIN db :
            /\ i < j
            /\ calls[i].net = "ok" /\ calls[j].net = "ok"
            /\ OrderWritten(calls[i], id) # <<>>
            /\ OrderWritten(calls[j], id) # <<>>
            /\ OrderWritten(calls[i], id) # OrderWritten(calls[j], id)
            /\ db[id].order = OrderWritten(calls[i], id)[1]

\* C19: every request on whose way an error is raised is answered with
\* success = false and a message, with the ApiError's statusCode for an
\* ApiError, 400 for a CastError or a ValidationError and 500 for any other
\* error; a body with success = true is sent only when no error was raised
C19_ErrorResponses ==
    [][\A i \in 1..Len(calls) :
          Answered(i) =>
              LET err == RequestError(calls[i])
              IN  /\ err # NoError =>
                         /\ ~calls'[i].success
                         /\ calls'[i].message
                         /\ calls'[i].resp = <<>>
                         /\ err.name = "ApiError" =>
                                /\ calls'[i].code = err.statusCode
                                /\ err.statusCode \in {401, 403, 404}
                         /\ err.name \in {"CastError", "ValidationError"} =>
                                calls'[i].code = 400
                         /\ err.name \notin {"ApiError", "CastError",
                                             "ValidationError"} =>
                                calls'[i].code = 500
                  /\ calls'[i].success => err = NoError]_vars

\* a member's move request with an id that is no ObjectId has been answered
\* 400 with an error body
C19_Witness ==
    /\ Len(calls) = 1
    /\ calls[1].call = "move" /\ calls[1].id = MalformedId
    /\ calls[1].auth = "valid" /\ calls[1].user = Member
    /\ calls[1].code = 400
    /\ ~calls[1].success /\ calls[1].message

\* ------------------------------------------------------------------------
\* the status of the first entry of the list with this id
CurrentStatus(id) == tasks[FindIndex(tasks, id) + 1].status

\* the column a drop on `over` is to be resolved to
ExpectedTarget(over) == IF over \in ColumnIds THEN over ELSE CurrentStatus(over)

\* C20: a drop is resolved to the column whose id is the drop target's id if
\* there is one, otherwise to the current status of the task with that id; a
\* column match wins over a task match; an id that is neither resolves to
\* nothing.  The handler acts on that column: it moves the dragged task there
\* when it differs from the snapshot's column and does not move it otherwise
C20_TargetColumn ==
    (dragging # NoId /\ activeTask # <<>>) =>
        /\ \A over \in ColumnIds \cup {id \in AllTaskIds : FindIndex(tasks, id) >= 0} :
               /\ targetColumnIdOf(columns, tasks, over) = <<ExpectedTarget(over)>>
               /\ IF activeTask[1].status # ExpectedTarget(over)
                  THEN /\ Len(DragEndCall(over)) = 1
                       /\ DragEndCall(over)[1].call = "move"
                       /\ DragEndCall(over)[1].status = ExpectedTarget(over)
                       /\ \A k \in 1..Len(tasks) :
                              tasks[k].id = activeTask[1].id =>
                                  DragEndTasks(over)[k].status = ExpectedTarget(over)
                  ELSE /\ \A k \in 1..Len(DragEndCall(over)) :
                              DragEndCall(over)[k].call = "orders"
                       /\ \A k \in 1..Len(tasks) :
                              \E j \in 1..Len(tasks) :
                                  /\ DragEndTasks(over)[j].id = tasks[k].id
                                  /\ DragEndTasks(over)[j].status = tasks[k].status
        /\ \A over \in {UnknownId} \cup {id \in AllTaskIds : FindIndex(tasks, id) < 0} :
               /\ targetColumnIdOf(columns, tasks, over) = <<>>
               /\ DragEndCall(over) = <<>>
               /\ DragEndTasks(over) = tasks
        /\ \A k \in 1..Len(tasks) :
               targetColumnIdOf(<<[id |-> tasks[k].id, order |-> 0]>>, tasks,
                              tasks[k].id) = <<tasks[k].id>>

\* a task is being dragged while a task of another column, moved there since
\* the board was loaded, can be dropped on: the drop resolves to the column
\* that task is in now
C20_Witness ==
    /\ dragging # NoId /\ activeTask # <<>>
    /\ \E k \in 1..Len(tasks) :
           /\ tasks[k].id # dragging
           /\ tasks[k].status # activeTask[1].status
           /\ tasks[k].checklist = <<TRUE>>
           /\ tasks[k].status = doneColumn.id
           /\ DragEndCall(tasks[k].id) # <<>>
           /\ DragEndCall(tasks[k].id)[1].status = tasks[k].status

\* ------------------------------------------------------------------------
\* the board under drags alone, once every task the board can hold has been
\* created and placed: the order values of each column are pairwise distinct
DistinctOrders(list) ==
    \A j, k \in 1..Len(list) :
        (j # k /\ list[j].status = list[k].status) => list[j].order # list[k].order

InitDragDbs ==
    {d \in [AllTaskIds -> [status : ColumnIds, order : 0..NumTasks,
                           checklist : {<<>>}, boardId : {BoardId},
                           owner : {NoId}]] :
        DistinctOrders(getTasksByBoard(d, BoardId))}

InitDrags ==
    /\ db \in InitDragDbs
    /\ tasks = SortByOrder(getTasksByBoard(db, BoardId))
    /\ activeTask = <<>>
    /\ dragging = NoId
    /\ selectedTask = <<>>
    /\ drawerOpen = FALSE
    /\ isSubmitting = FALSE
    /\ calls = <<>>
    /\ unhandled = {}
    /\ ops = 0
    /\ boards = Boards

NextDrags ==
    \/ \E id \in AllTaskIds : handleDragStart(id)
    \/ \E over \in AllTaskIds \cup ColumnIds \cup {NoId, UnknownId} :
           handleDragEnd(over)
    \/ \E i \in 1..Len(calls) : Serve(i)
    \/ \E i \in 1..Len(calls) : RequestLost(i)
    \/ \E i \in 1..Len(calls) : DragMoveDone(i)
    \/ \E i \in 1..Len(calls) : DragOrdersDone(i)
    \/ \E i \in 1..Len(calls) : DragRefetchDone(i)

SpecDrags == InitDrags /\ [][NextDrags]_vars

\* the same board with the drawer: drags and saves of existing tasks
SpecFullBoard == InitDrags /\ [][NextMoves]_vars

\* C21: every drag of an existing task that ends over a valid target (a
\* column, or a task of the list) in a column other than the one the task is
\* in issues a move request for that task to that column, also when the drag
\* starts or ends while the request of an earlier drag is in flight
C21_DropIssuesMove ==
    (dragging # NoId /\ Dragged # <<>>) =>
        \A over \in ColumnIds \cup {id \in AllTaskIds : FindIndex(tasks, id) >= 0} :
            ExpectedTarget(over) # Dragged[1].status =>
                /\ Len(DragEndCall(over)) = 1
                /\ DragEndCall(over)[1].call = "move"
                /\ DragEndCall(over)[1].id = dragging
                /\ DragEndCall(over)[1].status = ExpectedTarget(over)

\* ------------------------------------------------------------------------
\* no move, bulk-order or refetch request is in flight: none has been issued
\* whose handler has not resumed from it
NoneInFlight ==
    \A i \in 1..Len(calls) :
        calls[i].call \notin {"move", "automove", "orders", "refetch"}

\* C22: with a single client, whenever no move, bulk-order or refetch request
\* is in flight, every task has the same status and order in the client's
\* list as on the server
C22_QuiescentAgreement ==
    NoneInFlight =>
        \A k \in 1..Len(tasks) :
            /\ tasks[k].id \in DOMAIN db
            /\ tasks[k].status = db[tasks[k].id].status
            /\ tasks[k].order = db[tasks[k].id].order

\* ------------------------------------------------------------------------
\* the ids of a column's tasks in display order (sorted by order)
ColumnSequence(list, col) == IdsOf(SortByOrder(FilterStatus(list, col)))

Without(ids, id) == SelectSeq(ids, LAMBDA x : x # id)

\* C23: in every same-column reorder only the dragged task changes position:
\* the column's task sequence with the dragged task removed is the same
\* before and after the reorder, also when the snapshot taken at drag start
\* is stale
C23_OthersKeepSequence ==
    (dragging # NoId /\ activeTask # <<>>) =>
        \A over \in AllTaskIds :
            DragBranch(over) = "reorder" =>
                Without(ColumnSequence(DragEndTasks(over), targetColumnOf(over)),
                        activeTask[1].id)
                    = Without(ColumnSequence(tasks, targetColumnOf(over)),
                              activeTask[1].id)

\* ------------------------------------------------------------------------
\* every handleDragEnd has run to its end: no card is being dragged and no
\* call of a drag handler is awaited
DragHandlersEnded ==
    /\ dragging = NoId
    /\ \A i \in 1..Len(calls) : calls[i].handler # "drag"

\* C24: after a drag end, once the handler's network calls have completed,
\* successfully or not, the active dragged task is null
C24_ActiveTaskCleared == DragHandlersEnded => activeTask = <<>>

\* ------------------------------------------------------------------------
\* C25: the order values within each column of the client's list, pairwise
\* distinct when the board is loaded, remain pairwise distinct within each
\* column after any sequence of cross-column drags and same-column reorders,
\* failed and rolled back ones included
C25_OrdersStayDistinct == DistinctOrders(tasks)

\* ------------------------------------------------------------------------
\* C26: when a checklist auto-move has succeeded, the moved task's order is
\* strictly greater than the order of every other task of the destination
\* column, on the server and in the client's list
C26_AutoMoveAppends ==
    [][\A i \in 1..Len(calls) :
          Resumes(i, "save", "automove", "ok") =>
              /\ \A id \in DOMAIN db' :
                     (id # calls[i].id /\ db'[id].status = calls[i].status) =>
                         db'[calls[i].id].order > db'[id].order
              /\ \A j, k \in 1..Len(tasks') :
                     (/\ tasks'[j].id = calls[i].id
                      /\ tasks'[k].id # calls[i].id
                      /\ tasks'[k].status = calls[i].status) =>
                         tasks'[j].order > tasks'[k].order]_vars

\* ================================================================ boards
\* The board and task services under concurrent requests.  Every await of a
\* middleware or service is a step of its own, so requests interleave as
\* they do on the server's event loop.  A request's `net` is its position:
\* "sent", "routed" (authenticate and authorizeBoard passed), "checked"
\* (createTask has validated the owner), "deleting" (deleteBoard has removed
\* the board document), then "ok" or "err".
NewBoardId == 303

\* a plausible slip: the member list is stored as the body gives it
createBoardAsGiven(bs, id, boardData, userId) ==
    [x \in DOMAIN bs \cup {id} |->
        IF x = id THEN [createdBy |-> userId, members |-> boardData.members]
        ELSE bs[x]]

\* Board.create({...boardData, createdBy: userId, members}) after the creator
\* has been pushed onto members when not included
createBoard(bs, id, boardData, userId) ==
    LET members == IF userId \in boardData.members THEN boardData.members
                   ELSE boardData.members \cup {userId}
        doc == [[createdBy |-> boardData.createdBy, members |-> boardData.members]
                    EXCEPT !.createdBy = userId, !.members = members]
    IN  [x \in DOMAIN bs \cup {id} |-> IF x = id THEN doc ELSE bs[x]]

\* Board.findByIdAndUpdate(id, updateData) with a body that names members
updateBoard(bs, id, updateData) == [bs EXCEPT ![id].members = updateData.members]

\* Board.findByIdAndDelete(id), the first await of deleteBoard
findByIdAndDelete(bs, id) == [x \in DOMAIN bs \ {id} |-> bs[x]]

\* Task.deleteMany({boardId: id}), the second await of deleteBoard
deleteMany(d, boardId) ==
    [x \in {id \in DOMAIN d : d[id].boardId # boardId} |-> d[x]]

\* Task.findByIdAndUpdate(id, updateData) with a body that names an owner
updateTaskOwner(d, id, owner) == [d EXCEPT ![id].owner = owner]

\* createTask's validation of taskData.owner against the board
ownerError(bs, taskData) ==
    IF taskData.owner = NoId THEN NoError
    ELSE IF taskData.boardId \notin DOMAIN bs THEN ApiError(404)
    ELSE LET board == bs[taskData.boardId]
             memberIds == {board.createdBy} \cup board.members
         IN  IF taskData.owner \notin memberIds THEN ApiError(400) ELSE NoError

\* the _id of the next document created
FreshTaskId ==
    1 + (CHOOSE m \in DOMAIN db \cup {0} : \A x \in DOMAIN db \cup {0} : x <= m)

\* the board's tasks, owned by nobody or by the board's member
InitBoardDbs ==
    [TaskIds -> [status : {columns[1].id}, order : {DefaultOrder},
                 checklist : {<<>>}, boardId : {BoardId}, owner : {NoId, Member}]]

InitBoards ==
    /\ db \in InitBoardDbs
    /\ boards = Boards
    /\ tasks = <<>>
    /\ activeTask = <<>>
    /\ dragging = NoId
    /\ selectedTask = <<>>
    /\ drawerOpen = FALSE
    /\ isSubmitting = FALSE
    /\ calls = <<>>
    /\ unhandled = {}
    /\ ops = 0

\* the requests: POST /tasks/board/:boardId, PUT /tasks/:id, PATCH
\* /tasks/:id/move, POST /boards, PUT /boards/:id, DELETE /boards/:id
BoardRequests ==
    {[ApiCall("create") EXCEPT !.boardId = b, !.user = u, !.owner = o,
                               !.status = columns[1].id] :
        b \in {BoardId, NewBoardId}, u \in {Creator, Outsider},
        o \in {NoId, Member, Outsider}}
    \cup {[ApiCall("updateowner") EXCEPT !.id = 1, !.user = Outsider, !.owner = o] :
        o \in {Member, Outsider}}
    \cup {[ApiCall("move") EXCEPT !.id = 1, !.status = doneColumn.id, !.order = 1]}
    \cup {[ApiCall("createboard") EXCEPT !.boardId = NewBoardId, !.user = u,
                                        !.members = m, !.createdBy = cb] :
        u \in {Outsider}, m \in {{}, {Outsider}, {Member}},
        cb \in {NoId, Creator}}
    \cup {[ApiCall("updateboard") EXCEPT !.boardId = BoardId, !.user = u,
                                        !.members = m] :
        u \in {Creator}, m \in {{}, {Member, Outsider}}}
    \cup {[ApiCall("deleteboard") EXCEPT !.boardId = b, !.user = u] :
        b \in {BoardId, NewBoardId}, u \in {Creator, Outsider}}

InFlight(c) == c.net \notin {"ok", "err"}

\* a request arrives while fewer than MaxCalls are being handled; the
\* answered ones are forgotten.  One board at most is created
BoardArrive(c) ==
    /\ ops < MaxOps
    /\ Len(SelectSeq(calls, InFlight)) < MaxCalls
    /\ c.call = "createboard" =>
           /\ NewBoardId \notin DOMAIN boards
           /\ \A i \in 1..Len(calls) : calls[i].call # "createboard"
           /\ \A id \in DOMAIN db : db[id].boardId # NewBoardId
    /\ calls' = Append(SelectSeq(calls, InFlight), c)
    /\ ops' = ops + 1
    /\ UNCHANGED <<tasks, activeTask, dragging, selectedTask, drawerOpen,
                   isSubmitting, db, unhandled, boards>>

\* next(error): errorHandler answers
Fails(i, err) ==
    calls' = [calls EXCEPT ![i].net = "err",
                           ![i].code = errorHandler(err).code,
                           ![i].success = errorHandler(err).success,
                           ![i].message = errorHandler(err).message]

\* responseHandler(res, statusCode, data)
Succeeds(i, statusCode) ==
    calls' = [calls EXCEPT ![i].net = "ok",
                           ![i].code = responseHandler(statusCode).code,
                           ![i].success = responseHandler(statusCode).success,
                           ![i].message = responseHandler(statusCode).message]

\* authenticate, then authorizeBoard on the routes that name it
Middleware(i) ==
    /\ calls[i].net = "sent"
    /\ LET c == calls[i]
           err == IF authenticate(c) # NoError THEN authenticate(c)
                  ELSE IF usesAuthorizeBoard(c) THEN authorizeBoard(c)
                  ELSE NoError
       IN  IF err # NoError THEN Fails(i, err)
           ELSE calls' = [calls EXCEPT ![i].net = "routed"]
    /\ UNCHANGED <<tasks, activeTask, dragging, selectedTask, drawerOpen,
                   isSubmitting, db, unhandled, ops, boards>>

\* createTask with an owner: await Board.findById(taskData.boardId)
CheckOwner(i) ==
    /\ calls[i].call = "create" /\ calls[i].net = "routed"
    /\ calls[i].owner # NoId
    /\ LET err == ownerError(boards, calls[i])
       IN  IF err # NoError THEN Fails(i, err)
           ELSE calls' = [calls EXCEPT ![i].net = "checked"]
    /\ UNCHANGED <<tasks, activeTask, dragging, selectedTask, drawerOpen,
                   isSubmitting, db, unhandled, ops, boards>>

\* createTask: await Task.create(taskData)
TaskCreate(i) ==
    /\ calls[i].call = "create"
    /\ \/ calls[i].net = "routed" /\ calls[i].owner = NoId
       \/ calls[i].net = "checked"
    /\ db' = createTask(db, FreshTaskId, calls[i].boardId, calls[i].status,
                        calls[i].updates, calls[i].owner)
    /\ Succeeds(i, 201)
    /\ UNCHANGED <<tasks, activeTask, dragging, selectedTask, drawerOpen,
                   isSubmitting, unhandled, ops, boards>>

\* updateTask: await Task.findByIdAndUpdate(id, updateData)
TaskUpdate(i) ==
    /\ calls[i].call = "updateowner" /\ calls[i].net = "routed"
    /\ IF calls[i].id \notin DOMAIN db
       THEN Fails(i, ApiError(404)) /\ UNCHANGED db
       ELSE /\ db' = updateTaskOwner(db, calls[i].id, calls[i].owner)
            /\ Succeeds(i, 200)
    /\ UNCHANGED <<tasks, activeTask, dragging, selectedTask, drawerOpen,
                   isSubmitting, unhandled, ops, boards>>

\* moveTask: await Task.findByIdAndUpdate(taskId, {status, order})
TaskMove(i) ==
    /\ calls[i].call = "move" /\ calls[i].net = "routed"
    /\ IF calls[i].id \notin DOMAIN db
       THEN Fails(i, ApiError(404)) /\ UNCHANGED db
       ELSE /\ db' = moveTask(db, calls[i].id, calls[i].status, calls[i].order)
            /\ Succeeds(i, 200)
    /\ UNCHANGED <<tasks, activeTask, dragging, selectedTask, drawerOpen,
                   isSubmitting, unhandled, ops, boards>>

\* createBoard(req.body, req.user.id): await Board.create
BoardCreate(i) ==
    /\ calls[i].call = "createboard" /\ calls[i].net = "routed"
    /\ boards' = createBoard(boards, calls[i].boardId,
                             [members |-> calls[i].members,
                              createdBy |-> calls[i].createdBy],
                             calls[i].user)
    /\ Succeeds(i, 201)
    /\ UNCHANGED <<tasks, activeTask, dragging, selectedTask, drawerOpen,
                   isSubmitting, db, unhandled, ops>>

\* updateBoard(req.params.id, req.body): await Board.findByIdAndUpdate
BoardUpdate(i) ==
    /\ calls[i].call = "updateboard" /\ calls[i].net = "routed"
    /\ IF calls[i].boardId \notin DOMAIN boards
       THEN Fails(i, ApiError(404)) /\ UNCHANGED boards
       ELSE /\ boards' = updateBoard(boards, calls[i].boardId,
                                     [members |-> calls[i].members])
            /\ Succeeds(i, 200)
    /\ UNCHANGED <<tasks, activeTask, dragging, selectedTask, drawerOpen,
                   isSubmitting, db, unhandled, ops>>

\* deleteBoard: await Board.findByIdAndDelete(id)
BoardDelete(i) ==
    /\ calls[i].call = "deleteboard" /\ calls[i].net = "routed"
    /\ IF calls[i].boardId \notin DOMAIN boards
       THEN Fails(i, ApiError(404)) /\ UNCHANGED boards
       ELSE /\ boards' = findByIdAndDelete(boards, calls[i].boardId)
            /\ calls' = [calls EXCEPT ![i].net = "deleting"]
    /\ UNCHANGED <<tasks, activeTask, dragging, selectedTask, drawerOpen,
                   isSubmitting, db, unhandled, ops>>

\* deleteBoard: await Task.deleteMany({boardId: id}), then the answer
TasksDelete(i) ==
    /\ calls[i].call = "deleteboard" /\ calls[i].net = "deleting"
    /\ db' = deleteMany(db, calls[i].boardId)
    /\ Succeeds(i, 200)
    /\ UNCHANGED <<tasks, activeTask, dragging, selectedTask, drawerOpen,
                   isSubmitting, unhandled, ops, boards>>

NextBoards ==
    \/ \E c \in BoardRequests : BoardArrive(c)
    \/ \E i \in 1..Len(calls) : Middleware(i)
    \/ \E i \in 1..Len(calls) : CheckOwner(i)
    \/ \E i \in 1..Len(calls) : TaskCreate(i)
    \/ \E i \in 1..Len(calls) : TaskUpdate(i)
    \/ \E i \in 1..Len(calls) : TaskMove(i)
    \/ \E i \in 1..Len(calls) : BoardCreate(i)
    \/ \E i \in 1..Len(calls) : BoardUpdate(i)
    \/ \E i \in 1..Len(calls) : BoardDelete(i)
    \/ \E i \in 1..Len(calls) : TasksDelete(i)

SpecBoards == InitBoards /\ [][NextBoards]_vars

\* ------------------------------------------------------------------------
\* no deleteBoard is between its two awaits
NoDeleteRunning ==
    \A i \in 1..Len(calls) :
        ~(calls[i].call = "deleteboard" /\ calls[i].net = "deleting")

\* C27: every stored task's boardId refers to an existing board: once
\* deleteBoard has completed no task of that board remains, whatever the
\* interleaving with task creation requests on the board that passed
\* authorizeBoard
C27_NoOrphanTasks ==
    NoDeleteRunning => \A id \in DOMAIN db : db[id].boardId \in DOMAIN boards

\* ------------------------------------------------------------------------
\* C28: every stored task that has an owner has as owner the creator or a
\* member of the task's board, after any sequence of createTask, updateTask,
\* moveTask and updateBoard operations
C28_OwnerIsOfBoard ==
    \A id \in DOMAIN db :
        (db[id].owner # NoId /\ db[id].boardId \in DOMAIN boards) =>
            IsOfBoard(db[id].owner, db[id].boardId)

\* ------------------------------------------------------------------------
\* C29: when createBoard(boardData, userId) has stored the board, the
\* creating user is in the board's member list, whether or not
\* boardData.members contained the user, and createdBy is the creating user
\* whatever the body names; so authorizeBoard lets the creator through on
\* the board just created
C29_CreatorIsMember ==
    [][\A i \in 1..Len(calls) :
          \A b \in DOMAIN boards' \ DOMAIN boards :
              \A u \in Users :
                  (/\ calls[i].call = "createboard"
                   /\ calls[i].net = "routed"
                   /\ calls[i].boardId = b
                   /\ calls[i].user = u) =>
                      /\ u \in boards'[b].members
                      /\ boards'[b].createdBy = u
                      /\ calls[i].members \subseteq boards'[b].members
                      /\ (authorizeBoard([NoCall EXCEPT !.user = u,
                                                        !.boardId = b]))' = NoError]_vars

\* a board has been created with a body whose member list did not name the
\* creator, and a request of the creator on that board has passed
\* authorizeBoard
C29_Witness ==
    /\ NewBoardId \in DOMAIN boards
    /\ boards[NewBoardId].createdBy = Outsider
    /\ boards[NewBoardId].members = {Member, Outsider}
    /\ \E i \in 1..Len(calls) :
           /\ calls[i].call \in {"create", "deleteboard"}
           /\ calls[i].boardId = NewBoardId
           /\ calls[i].user = Outsider
           /\ calls[i].net = "routed"
====
